---- MODULE Spec2Model ----
(***************************************************************************)
(* Distributed YansWifi channel: the channel processor on the channel rank *)
(* (device registry, per-transmission fan-out), the channel stub on the    *)
(* device ranks and the messages between them.                             *)
(*                                                                         *)
(* Sources: src/src/wifi/mpi-channel/wifi-channel-mpi-processor.cc (the    *)
(* processor), remote-yans-wifi-phy-stub.cc (the MPI-enabled stub),        *)
(* wifi-mpi-interface-backup.cc (WifiMpiInterface) and                     *)
(* wifi-mpi-message.cc (headers).                                          *)
(***************************************************************************)
EXTENDS Integers, Sequences, FiniteSets, TLC

(***************************************************************************)
(* Bounds of the model.                                                    *)
(***************************************************************************)
\* registrations in one run (cap on m_deviceCounter)
MaxDevices == 2
\* highest MPI rank; ranks are 0..MaxRank
MaxRank == 1
\* positions lie on the x axis at 0, 10, .., 10 * MaxCoord metres
MaxCoord == 1
\* cap on the processor's m_sequenceNumber
MaxNotify == 2
\* sequence numbers of incoming messages are 1..MaxSeq
MaxSeq == 2
\* calls of the stub's Send in one run (cap on m_sendCount)
MaxSends == 2
\* the simulation clock runs from 0 to MaxTime
MaxTime == 2

(***************************************************************************)
(* Program constants.                                                      *)
(***************************************************************************)
\* Initialize(): "if (m_systemId != 0)": the channel rank
ChannelRank == 0
\* speedOfLight, m/s
SpeedOfLight == 299792458
\* m_receptionThresholdDbm(-85.0), the threshold of the backup processor
ReceptionThresholdDbm == -85
\* enum WifiMpiMessageType
WIFI_MPI_DEVICE_REGISTER == 100
WIFI_MPI_CONFIG_LOSS_MODEL == 102
WIFI_MPI_TX_REQUEST == 103
WIFI_MPI_DEVICE_REMOVE == 104
WIFI_MPI_RX_NOTIFICATION == 200
WIFI_MPI_ERROR_NOTIFY == 204

\* WifiMpiMessageHeader::GetSerializedSize(): 8 * sizeof(uint32_t) + sizeof(uint64_t)
HeaderSize == 40
\* ValidateHeader: "header.messageSize > 1000000"
MaxMessageSize == 1000000
\* calls of HandleReceivedMessage that are counted
MaxReceived == 2

\* enum WifiMpiMessageType
WifiMpiMessageType ==
    (WIFI_MPI_DEVICE_REGISTER..WIFI_MPI_DEVICE_REMOVE)
        \cup (WIFI_MPI_RX_NOTIFICATION..WIFI_MPI_ERROR_NOTIFY)

\* the types a handler is registered for on the channel rank: what the device
\* ranks send to change the registry or to transmit
HandledTypes == {WIFI_MPI_DEVICE_REGISTER, WIFI_MPI_TX_REQUEST, WIFI_MPI_DEVICE_REMOVE}

Ranks == 0..MaxRank
DeviceIds == 0..MaxDevices
Vector3D(px, py, pz) == [x |-> px, y |-> py, z |-> pz]
Positions == {Vector3D(10 * i, 0, 0) : i \in 0..MaxCoord}
\* transmission powers in dBm: 100 mW and 1 microwatt
TxPowersDbm == {20, -30}

VARIABLES
    \* ---- WifiChannelMpiProcessor ----
    m_systemId,        \* MpiInterface::GetSystemId() of the processor's process
    m_initialized,     \* Initialize() has succeeded
    m_deviceCounter,   \* device id counter
    m_sequenceNumber,  \* sequence counter of the notifications
    m_remoteDevices,   \* std::map<uint32_t, RemoteDeviceInfo>: id -> record
    now,               \* Simulator::Now()
    mpiSent,           \* packets the current call handed to MpiInterface::SendPacket
    lastMsg,           \* the packet HandleMpiMessage was called with last, and its outcome
    \* ---- WifiMpiInterface, receiving ----
    m_messageHandlers, \* the message types a handler is registered for
    m_messagesReceived,
    lastRecv,          \* the message HandleReceivedMessage was called with last, its outcome
    \* ---- a message on the wire ----
    wire,              \* the message serialized last, its bytes and what was parsed from them
    \* ---- YansWifiChannelProxy ----
    proxy,             \* the proxy's call counters and the channel it wraps
    \* ---- WifiChannelMpiProcessor, the variant with m_devicesByRank ----
    indexed,           \* its flags, its registry, its per-rank index and its statistics
    \* ---- WifiMpiInterface ----
    m_ifaceInitialized, \* WifiMpiInterface::m_initialized
    m_pendingMessages, \* received messages waiting for ProcessIncomingMessages
    drained,           \* what the last ProcessIncomingMessages handed on, with the outcomes
    \* ---- RemoteYansWifiChannelStub (MPI-enabled) on a device rank ----
    m_remoteChannelRank,
    m_localDeviceRank,
    m_sendCount,
    m_addCount,
    m_mpiInitialized,
    m_loggingFallback,
    m_messageId,          \* simulated (logged) MPI messages
    m_phyList,            \* YansWifiChannel's list of attached PHYs, each by its node's id
    m_nextSequenceNumber, \* WifiMpiInterface's counter on the stub's rank
    stubProcess,          \* the stub's process: its build, or "aborted" after an NS_ASSERT
    phyReceptions,        \* the receptions started at the attached PHYs, each with its time
    net,                  \* packets sent to the channel rank and not yet received, in order
    assignedId,           \* PHY index -> the id the processor gave its registration, 0 if none
    \* ---- history of the run ----
    lastOp,            \* the operation that ran last, its argument and result
    issued,            \* the ids RegisterDevice returned, in order
    erased,            \* the ids UnregisterDevice erased
    announced          \* id -> the channelNumber of the DEVICE_REGISTER it was given for

procVars == <<m_systemId, m_initialized, m_deviceCounter, m_sequenceNumber, m_remoteDevices,
              now, mpiSent>>
\* the state outside the processor, the interface and the stub
extVars == <<wire, proxy, indexed, m_ifaceInitialized, m_pendingMessages, drained>>
\* everything but the history of the last operation and extVars
coreVars == <<m_systemId, m_initialized, m_deviceCounter, m_sequenceNumber, m_remoteDevices,
              now, mpiSent, lastMsg, m_messageHandlers, m_messagesReceived, lastRecv, issued,
              announced, erased, m_remoteChannelRank, m_localDeviceRank, m_sendCount,
              m_addCount, m_mpiInitialized, m_loggingFallback, m_messageId, m_phyList,
              m_nextSequenceNumber, stubProcess, phyReceptions, net, assignedId>>
msgVars == <<lastMsg, m_messageHandlers, m_messagesReceived, lastRecv, extVars>>
stubVars == <<m_remoteChannelRank, m_localDeviceRank, m_sendCount, m_addCount,
              m_mpiInitialized, m_loggingFallback, m_messageId, m_phyList,
              m_nextSequenceNumber, stubProcess, phyReceptions>>
netVars == <<net, assignedId>>
histVars == <<lastOp, issued, erased, announced>>
vars == <<procVars, msgVars, stubVars, netVars, histVars>>

Op(name, arg, ret) == [op |-> name, arg |-> arg, ret |-> ret]

(***************************************************************************)
(* Helpers.                                                                *)
(***************************************************************************)
Range(s) == {s[i] : i \in DOMAIN s}

\* faulty variant of KeysInOrder: iteration in insertion-reversed (descending) order
KeysInReverseOrder(map) ==
    SelectSeq([i \in 1..MaxDevices |-> MaxDevices + 1 - i], LAMBDA k : k \in DOMAIN map)

\* the keys of a std::map<uint32_t, ..> in iteration (ascending) order
KeysInOrder(map) ==
    SelectSeq([i \in 1..MaxDevices |-> i], LAMBDA k : k \in DOMAIN map)

\* floor of the square root
RECURSIVE ISqrtFrom(_, _)
ISqrtFrom(n, r) == IF (r + 1) * (r + 1) > n THEN r ELSE ISqrtFrom(n, r + 1)
ISqrt(n) == ISqrtFrom(n, 0)

\* floor(a * f1 * .. * fn / m) for the factors fs = <<f1, .., fn>>
RECURSIVE MulDivFrom(_, _, _, _)
MulDivFrom(q, r, fs, m) ==
    IF fs = <<>> THEN q
    ELSE MulDivFrom(q * Head(fs) + (r * Head(fs)) \div m, (r * Head(fs)) % m, Tail(fs), m)
MulDiv(a, fs, m) == MulDivFrom(a \div m, a % m, fs, m)

\* 1e9 / 2 = 2^8 * 5^9, written as factors
NanoFactors == <<4, 4, 4, 4, 5, 5, 5, 5, 5, 5, 5, 5, 5>>

\* CalculateDistance: sqrt(dx*dx + dy*dy + dz*dz), metres
CalculateDistance(pos1, pos2) ==
    LET dx == pos1.x - pos2.x
        dy == pos1.y - pos2.y
        dz == pos1.z - pos2.z
    IN ISqrt(dx * dx + dy * dy + dz * dz)

\* CalculatePropagationDelay, as SendReceptionNotification converts it:
\* static_cast<uint64_t>((distance / speedOfLight) * 1e9), nanoseconds
\* (floor(d * 10^9 / 299792458) = floor(d * 2^8 * 5^9 / 149896229), computed
\* factor by factor on quotient and remainder to stay inside 32-bit integers)
DelayNs[d \in 0..(10 * MaxCoord)] == MulDiv(d, NanoFactors, SpeedOfLight \div 2)
CalculatePropagationDelayNs(txPos, rxPos) == DelayNs[CalculateDistance(txPos, rxPos)]

\* powers are whole dBm, and whole microwatts inside a TX_REQUEST
RECURSIVE Pow10(_)
Pow10(n) == IF n <= 0 THEN 1 ELSE 10 * Pow10(n - 1)
RECURSIVE Log10(_)
Log10(n) == IF n < 10 THEN 0 ELSE 1 + Log10(n \div 10)

\* Send: "txPowerW = std::pow(10.0, txPower / 10.0) / 1000.0", in microwatts
DbmToW(txPower) == Pow10(txPower \div 10 + 3)

\* HandleTransmissionRequestMessage: "txPowerDbm = 10.0 * log10(txPowerW * 1000.0)"
WToDbm(txPowerW) == 10 * (Log10(txPowerW) - 3)

\* 1000 * 10^(k/20) for k = 1..19: the steps of one decade of 20 * log10
DecadeSteps ==
    <<1122, 1259, 1413, 1585, 1778, 1995, 2239, 2512, 2818, 3162,
      3548, 3981, 4467, 5012, 5623, 6310, 7079, 7943, 8913>>

\* 20 * log10(x / 1000), rounded down to whole dB, for x >= 1000
RECURSIVE TwentyLog10(_)
TwentyLog10(x) ==
    IF x >= 10000
    THEN 20 + TwentyLog10(x \div 10)
    ELSE Cardinality({k \in DOMAIN DecadeSteps : DecadeSteps[k] <= x})

\* CalculateRxPower at the frequency the handlers pass, 2.4 GHz: 4 * pi * f / c
\* is 100.600 per metre; "if (distance <= 0.0) return txPowerDbm"
CalculateRxPower(txPos, rxPos, txPowerDbm) ==
    LET distance == CalculateDistance(txPos, rxPos)
    IN IF distance <= 0
       THEN txPowerDbm
       ELSE txPowerDbm - TwentyLog10(distance * 100600)

\* RemoteDeviceInfo::RemoteDeviceInfo(id, r, pos)
RemoteDeviceInfo(id, r, pos) ==
    [deviceId |-> id, rank |-> r, position |-> pos, lastActivity |-> now, isActive |-> TRUE]

\* IsDeviceRegistered
IsDeviceRegistered(deviceId) == deviceId \in DOMAIN m_remoteDevices

\* GetDevicePosition: the stored position, (0,0,0) for an unknown device
GetDevicePosition(deviceId) ==
    IF deviceId \in DOMAIN m_remoteDevices
    THEN m_remoteDevices[deviceId].position
    ELSE Vector3D(0, 0, 0)

(***************************************************************************)
(* Device registry.                                                        *)
(***************************************************************************)
\* faulty variant of NextDeviceId: the id is derived from the registry's size, so an id freed
\* by a deregistration is handed out again
NextDeviceIdFromSize == Cardinality(DOMAIN m_remoteDevices) + 1

\* RegisterDevice: "uint32_t deviceId = ++m_deviceCounter"
NextDeviceId == m_deviceCounter + 1

\* m_remoteDevices[deviceId] = deviceInfo
MapPut(map, key, val) ==
    [k \in DOMAIN map \cup {key} |-> IF k = key THEN val ELSE map[k]]

\* faulty variant of MapErase: the erase is lost
MapEraseNothing(map, key) == map

\* m_remoteDevices.erase(it)
MapErase(map, key) == [k \in DOMAIN map \ {key} |-> map[k]]

\* uint32_t RegisterDevice(sourceRank, position): the registry and counter after it
RegisterDeviceEffect(sourceRank, position) ==
    /\ m_deviceCounter' = NextDeviceId
    /\ m_remoteDevices' =
           MapPut(m_remoteDevices, NextDeviceId,
                  RemoteDeviceInfo(NextDeviceId, sourceRank, position))
    /\ issued' = Append(issued, NextDeviceId)

RegisterDevice(sourceRank, position) ==
    /\ m_deviceCounter < MaxDevices
    /\ RegisterDeviceEffect(sourceRank, position)
    /\ mpiSent' = <<>>
    /\ announced' = MapPut(announced, NextDeviceId, 0)
    /\ lastOp' = Op("RegisterDevice", sourceRank, NextDeviceId)
    /\ UNCHANGED <<m_systemId, m_initialized,
                   m_sequenceNumber, now, erased, msgVars, stubVars, netVars>>

\* faulty variant of UnregisterDeviceEffect: the result of find is not
\* compared with end(), an unknown id empties the registry
UnregisterDeviceUnchecked(deviceId) ==
    IF deviceId \in DOMAIN m_remoteDevices
    THEN /\ m_remoteDevices' = MapErase(m_remoteDevices, deviceId)
         /\ erased' = erased \cup {deviceId}
    ELSE /\ m_remoteDevices' = <<>>
         /\ UNCHANGED erased

\* UnregisterDevice: "auto it = m_remoteDevices.find(deviceId);
\* if (it != m_remoteDevices.end()) { .. erase(it) } else { NS_LOG_WARN }"
UnregisterDeviceEffect(deviceId) ==
    IF deviceId \in DOMAIN m_remoteDevices
    THEN /\ m_remoteDevices' = MapErase(m_remoteDevices, deviceId)
         /\ erased' = erased \cup {deviceId}
    ELSE UNCHANGED <<m_remoteDevices, erased>>

\* void UnregisterDevice(deviceId): erase when found, a warning otherwise
UnregisterDevice(deviceId) ==
    /\ UnregisterDeviceEffect(deviceId)
    /\ mpiSent' = <<>>
    /\ lastOp' = Op("UnregisterDevice", deviceId, 0)
    /\ UNCHANGED <<m_systemId, m_initialized,
                   m_deviceCounter, m_sequenceNumber, now, issued, announced, msgVars,
                   stubVars, netVars>>

\* faulty variant of UpdateDevicePositionEffect: lastActivity is set to a
\* default-constructed Time instead of Simulator::Now()
UpdateDevicePositionAtEpoch(deviceId, newPosition) ==
    IF deviceId \in DOMAIN m_remoteDevices
    THEN m_remoteDevices' =
             [m_remoteDevices EXCEPT ![deviceId].position = newPosition,
                                     ![deviceId].lastActivity = 0]
    ELSE UNCHANGED m_remoteDevices

\* UpdateDevicePosition: "it->second.position = newPosition;
\* it->second.lastActivity = Simulator::Now();" when found, a warning otherwise
UpdateDevicePositionEffect(deviceId, newPosition) ==
    IF deviceId \in DOMAIN m_remoteDevices
    THEN m_remoteDevices' =
             [m_remoteDevices EXCEPT ![deviceId].position = newPosition,
                                     ![deviceId].lastActivity = now]
    ELSE UNCHANGED m_remoteDevices

\* void UpdateDevicePosition(deviceId, newPosition)
UpdateDevicePosition(deviceId, newPosition) ==
    /\ UpdateDevicePositionEffect(deviceId, newPosition)
    /\ mpiSent' = <<>>
    /\ lastOp' = Op("UpdateDevicePosition", deviceId, 0)
    /\ UNCHANGED <<m_systemId, m_initialized,
                   m_deviceCounter, m_sequenceNumber, now, issued, announced, erased,
                   msgVars, stubVars, netVars>>

\* a position a device had at eventTime, applied now: UpdateDevicePosition is
\* given the device and the position only, lastOp keeps the time of the report
PositionReport(deviceId, newPosition, eventTime) ==
    /\ UpdateDevicePositionEffect(deviceId, newPosition)
    /\ mpiSent' = <<>>
    /\ lastOp' = Op("UpdateDevicePosition", deviceId, eventTime)
    /\ UNCHANGED <<m_systemId, m_initialized,
                   m_deviceCounter, m_sequenceNumber, now, issued, announced,
                   erased, msgVars, stubVars, netVars>>

\* the simulator advances Simulator::Now() between two calls
Tick ==
    /\ now < MaxTime
    /\ now' = now + 1
    /\ mpiSent' = <<>>
    /\ lastOp' = Op("Tick", 0, 0)
    /\ UNCHANGED <<m_systemId, m_initialized,
                   m_deviceCounter, m_sequenceNumber, m_remoteDevices, issued,
                   announced, erased, msgVars, stubVars, netVars>>

(***************************************************************************)
(* Transmission fan-out.                                                   *)
(***************************************************************************)
\* faulty variant of Receivers: the self-transmission check is missing
ReceiversWithSelf(transmitterId) == KeysInOrder(m_remoteDevices)

\* ProcessTransmission's loop over m_remoteDevices, in key order:
\* "if (rxDeviceId == transmitterId) continue;"
Receivers(transmitterId) ==
    SelectSeq(KeysInOrder(m_remoteDevices), LAMBDA id : id # transmitterId)

\* faulty variant of the notification: GetNextSequenceNumber is called once for
\* the whole transmission
RxNotificationMsgCountedOnce(rxDevice, transmitterId, txPosition, txPowerDbm, k) ==
    [messageType           |-> WIFI_MPI_RX_NOTIFICATION,
     sequenceNumber        |-> m_sequenceNumber + 1,
     sourceRank            |-> m_systemId,
     targetRank            |-> rxDevice.rank,
     timestamp             |-> now,
     receiverDeviceId      |-> rxDevice.deviceId,
     rxPowerDbm            |-> CalculateRxPower(txPosition, rxDevice.position, txPowerDbm),
     transmitterDeviceId   |-> transmitterId,
     distanceM             |-> CalculateDistance(GetDevicePosition(transmitterId),
                                                 rxDevice.position),
     propagationDelay      |-> CalculatePropagationDelayNs(txPosition, rxDevice.position),
     transmissionTimestamp |-> now]

\* the WifiMpiRxNotificationMessage SendReceptionNotification builds for the
\* k-th receiver of the loop (each call takes GetNextSequenceNumber())
\* (the fields pathLossDb and frequency are left out)
RxNotificationMsg(rxDevice, transmitterId, txPosition, txPowerDbm, k) ==
    [messageType           |-> WIFI_MPI_RX_NOTIFICATION,
     sequenceNumber        |-> m_sequenceNumber + k,
     sourceRank            |-> m_systemId,
     targetRank            |-> rxDevice.rank,
     timestamp             |-> now,
     receiverDeviceId      |-> rxDevice.deviceId,
     rxPowerDbm            |-> CalculateRxPower(txPosition, rxDevice.position, txPowerDbm),
     transmitterDeviceId   |-> transmitterId,
     distanceM             |-> CalculateDistance(GetDevicePosition(transmitterId),
                                                 rxDevice.position),
     propagationDelay      |-> CalculatePropagationDelayNs(txPosition, rxDevice.position),
     transmissionTimestamp |-> now]

\* SendReceptionNotification hands the packet to MpiInterface::SendPacket only
\* "if (mpiReceiver && rxDevice.rank != MpiInterface::GetSystemId())"
IsSentOverMpi(msg) == msg.targetRank # m_systemId

\* the notifications of one ProcessTransmission call, in loop order
BuiltNotifications(transmitterId, txPosition, txPowerDbm) ==
    LET rx == Receivers(transmitterId)
    IN [k \in 1..Len(rx) |->
           RxNotificationMsg(m_remoteDevices[rx[k]], transmitterId, txPosition,
                             txPowerDbm, k)]

\* void ProcessTransmission(transmitterId, txPosition, txPowerDbm, frequency):
\* its effect on the sequence counter and on the fabric
ProcessTransmissionEffect(transmitterId, txPosition, txPowerDbm) ==
    LET built == BuiltNotifications(transmitterId, txPosition, txPowerDbm)
    IN /\ m_sequenceNumber + Len(built) <= MaxNotify
       /\ m_sequenceNumber' = m_sequenceNumber + Len(built)
       /\ mpiSent' = SelectSeq(built, IsSentOverMpi)

ProcessTransmission(transmitterId, txPosition, txPowerDbm) ==
    /\ ProcessTransmissionEffect(transmitterId, txPosition, txPowerDbm)
    /\ lastOp' = Op("ProcessTransmission", transmitterId, 0)
    /\ UNCHANGED <<m_systemId, m_initialized,
                   m_deviceCounter, m_remoteDevices, now, issued, announced, erased,
                   msgVars, stubVars, netVars>>

(***************************************************************************)
(* Incoming MPI messages.                                                  *)
(***************************************************************************)
\* a packet as the handlers read it: how much of it is there (size), the
\* WifiMpiMessageHeader fields messageType, sourceRank and sequenceNumber, and
\* the body fields deviceId, phyId, nodeId, channelNumber, txPowerW and position
\* (0 where the message has none)
Packet(sz, type, rank, seq, dev, phy, node) ==
    [size |-> sz, messageType |-> type, sourceRank |-> rank, sequenceNumber |-> seq,
     deviceId |-> dev, phyId |-> phy, nodeId |-> node, channelNumber |-> 0,
     txPowerW |-> 0, position |-> Vector3D(0, 0, 0), messageSize |-> HeaderSize,
     mpiSource |-> rank]

\* WifiMpiDeviceRegisterMessage::channelNumber of a registration
OnChannel(pkt, channel) == [pkt EXCEPT !.channelNumber = channel]

\* WifiMpiTxRequestMessage::txPowerW of a transmission request
WithPower(pkt, txPowerW) == [pkt EXCEPT !.txPowerW = txPowerW]

\* the position a message reports
AtPosition(pkt, pos) == [pkt EXCEPT !.position = pos]

\* the channels the PHYs of a run are tuned to: one of the 2.4 GHz band, one
\* of the 5 GHz band
Channels == {1, 36}

SeqNums == 1..MaxSeq
NodeIds == 0..(MaxDevices - 1)
PhyIds == 1..MaxDevices

\* DEVICE_REGISTER packets: the device id of a registration is the node's id
RegisterPackets ==
    {OnChannel(Packet("full", WIFI_MPI_DEVICE_REGISTER, r, q, n, ph, n), ch) :
        r \in Ranks, q \in SeqNums, n \in NodeIds, ph \in PhyIds, ch \in Channels}

\* TX_REQUEST packets
TxRequestPackets ==
    {WithPower(Packet("full", WIFI_MPI_TX_REQUEST, r, q, d, 0, 0), DbmToW(pw)) :
        r \in Ranks, q \in SeqNums, d \in DeviceIds, pw \in TxPowersDbm}

\* packets of a type HandleMpiMessage has no case for
OtherPackets ==
    {Packet("full", WIFI_MPI_CONFIG_LOSS_MODEL, r, q, 0, 0, 0) : r \in Ranks, q \in SeqNums}

\* DEVICE_REMOVE packets, for which HandleMpiMessage has no case
DeviceRemovePackets ==
    {Packet("full", WIFI_MPI_DEVICE_REMOVE, r, q, d, 0, 0) :
        r \in Ranks, q \in SeqNums, d \in DeviceIds}

\* position updates: messages of type 105, for which WifiMpiMessageType has no
\* enumerator and HandleMpiMessage no case
PositionUpdatePackets ==
    {AtPosition(Packet("full", 105, r, q, d, 0, 0), pos) :
        r \in Ranks, q \in SeqNums, d \in DeviceIds, pos \in Positions}

\* the header's messageSize, the length the sender declares
Declaring(pkt, messageSize) == [pkt EXCEPT !.messageSize = messageSize]

\* the rank the fabric reports as the sender of the packet
FromRank(pkt, sender) == [pkt EXCEPT !.mpiSource = sender]

\* complete packets whose header declares a length below the header's size or
\* above the maximum
MisdeclaredPackets ==
    {Declaring(pkt, sz) :
        pkt \in {OnChannel(Packet("full", WIFI_MPI_DEVICE_REGISTER, 1, 1, 1, 1, 1), 1),
                 WithPower(Packet("full", WIFI_MPI_TX_REQUEST, 1, 1, 1, 0, 0), DbmToW(20))},
        sz \in {HeaderSize - 1, MaxMessageSize + 1}}

\* complete packets whose header names another rank than the one that sent them
ForgedPackets ==
    {forged \in {FromRank(pkt, sender) :
                    pkt \in {OnChannel(Packet("full", WIFI_MPI_DEVICE_REGISTER, r, 1, 1, 1, 1),
                                       1) : r \in Ranks}
                               \cup {WithPower(Packet("full", WIFI_MPI_TX_REQUEST, r, 1, 1, 0,
                                                      0),
                                               DbmToW(20)) : r \in Ranks},
                    sender \in Ranks} : forged.mpiSource # forged.sourceRank}

\* a null pointer, fewer than four bytes, and packets cut short after the type
MalformedPackets ==
    {Packet("null", 0, 0, 0, 0, 0, 0), Packet("tiny", 0, 0, 0, 0, 0, 0),
     Packet("short", WIFI_MPI_DEVICE_REGISTER, 0, 0, 0, 0, 0),
     Packet("short", WIFI_MPI_TX_REQUEST, 0, 0, 0, 0, 0)}

Packets ==
    RegisterPackets \cup TxRequestPackets \cup OtherPackets \cup DeviceRemovePackets
        \cup PositionUpdatePackets \cup MalformedPackets \cup MisdeclaredPackets
        \cup ForgedPackets

\* the packets that hold a complete message
CompletePackets == {pkt \in Packets : pkt.size = "full"}

Handled(pkt, result, id) == [pkt |-> pkt, outcome |-> result, assigned |-> id]
NoMsg == Handled(Packet("null", 0, 0, 0, 0, 0, 0), "none", 0)

\* HandleDeviceRegistrationMessage: "uint32_t sourceRank = header->sourceRank"
RegistrationRank(pkt) == pkt.sourceRank

\* void HandleDeviceRegistrationMessage(packet): registers at (0,0,0) under a
\* fresh id; no acknowledgment is sent
HandleDeviceRegistrationMessage(pkt) ==
    IF pkt.size # "full"
    THEN /\ lastMsg' = Handled(pkt, "too small", 0)
         /\ mpiSent' = <<>>
         /\ UNCHANGED <<m_deviceCounter, m_sequenceNumber, m_remoteDevices, issued, announced>>
    ELSE /\ m_deviceCounter < MaxDevices
         /\ RegisterDeviceEffect(RegistrationRank(pkt), Vector3D(0, 0, 0))
         /\ announced' = MapPut(announced, NextDeviceId, pkt.channelNumber)
         /\ lastMsg' = Handled(pkt, "registered", NextDeviceId)
         /\ mpiSent' = <<>>
         /\ UNCHANGED m_sequenceNumber

\* faulty variant of HandleTransmissionRequestMessage: the IsDeviceRegistered
\* check is missing, the transmission is fanned out from GetDevicePosition
HandleTransmissionRequestUnchecked(pkt) ==
    IF pkt.size # "full"
    THEN /\ lastMsg' = Handled(pkt, "too small", 0)
         /\ mpiSent' = <<>>
         /\ UNCHANGED <<m_deviceCounter, m_sequenceNumber, m_remoteDevices, issued, announced>>
    ELSE /\ ProcessTransmissionEffect(pkt.deviceId, GetDevicePosition(pkt.deviceId),
                                      WToDbm(pkt.txPowerW))
         /\ lastMsg' = Handled(pkt, "transmitted", 0)
         /\ UNCHANGED <<m_deviceCounter, m_remoteDevices, issued, announced>>

\* void HandleTransmissionRequestMessage(packet): ProcessTransmission from the
\* stored position of a registered device, a warning otherwise
HandleTransmissionRequestMessage(pkt) ==
    IF pkt.size # "full"
    THEN /\ lastMsg' = Handled(pkt, "too small", 0)
         /\ mpiSent' = <<>>
         /\ UNCHANGED <<m_deviceCounter, m_sequenceNumber, m_remoteDevices, issued, announced>>
    ELSE IF IsDeviceRegistered(pkt.deviceId)
    THEN /\ ProcessTransmissionEffect(pkt.deviceId, m_remoteDevices[pkt.deviceId].position,
                                      WToDbm(pkt.txPowerW))
         /\ lastMsg' = Handled(pkt, "transmitted", 0)
         /\ UNCHANGED <<m_deviceCounter, m_remoteDevices, issued, announced>>
    ELSE /\ lastMsg' = Handled(pkt, "unregistered device", 0)
         /\ mpiSent' = <<>>
         /\ UNCHANGED <<m_deviceCounter, m_sequenceNumber, m_remoteDevices, issued, announced>>

\* the outcomes of HandleMpiMessage that drop the packet with a warning
DroppedOutcomes == {"null packet", "too small", "unknown type", "unregistered device"}

\* faulty variant of HandleMpiMessage: a packet of an unknown type resets the
\* registry
HandleMpiMessageResetting(pkt) ==
    /\ IF pkt.size \in {"null", "tiny"}
       THEN /\ lastMsg' = Handled(pkt, IF pkt.size = "null" THEN "null packet" ELSE "too small", 0)
            /\ mpiSent' = <<>>
            /\ UNCHANGED <<m_deviceCounter, m_sequenceNumber, m_remoteDevices, issued, announced>>
       ELSE IF pkt.messageType = WIFI_MPI_DEVICE_REGISTER
       THEN HandleDeviceRegistrationMessage(pkt)
       ELSE IF pkt.messageType = WIFI_MPI_TX_REQUEST
       THEN HandleTransmissionRequestMessage(pkt)
       ELSE /\ lastMsg' = Handled(pkt, "unknown type", 0)
            /\ mpiSent' = <<>>
            /\ m_remoteDevices' = <<>>
            /\ UNCHANGED <<m_deviceCounter, m_sequenceNumber, issued, announced>>
    /\ lastOp' = Op("HandleMpiMessage", 0, 0)
    /\ UNCHANGED <<m_systemId, m_initialized, now, erased, m_messageHandlers,
                   m_messagesReceived, lastRecv, extVars>>

\* void HandleMpiMessage(packet): its effect on the processor
HandleMpiMessageEffect(pkt) ==
    /\ IF pkt.size \in {"null", "tiny"}
       THEN /\ lastMsg' = Handled(pkt, IF pkt.size = "null" THEN "null packet" ELSE "too small", 0)
            /\ mpiSent' = <<>>
            /\ UNCHANGED <<m_deviceCounter, m_sequenceNumber, m_remoteDevices, issued, announced>>
       ELSE IF pkt.messageType = WIFI_MPI_DEVICE_REGISTER
       THEN HandleDeviceRegistrationMessage(pkt)
       ELSE IF pkt.messageType = WIFI_MPI_TX_REQUEST
       THEN HandleTransmissionRequestMessage(pkt)
       ELSE /\ lastMsg' = Handled(pkt, "unknown type", 0)
            /\ mpiSent' = <<>>
            /\ UNCHANGED <<m_deviceCounter, m_sequenceNumber, m_remoteDevices, issued, announced>>
    /\ lastOp' = Op("HandleMpiMessage", 0, 0)
    /\ UNCHANGED <<m_systemId, m_initialized, now, erased, m_messageHandlers,
                   m_messagesReceived, lastRecv, extVars>>

HandleMpiMessage(pkt) ==
    /\ HandleMpiMessageEffect(pkt)
    /\ UNCHANGED <<stubVars, netVars>>

(***************************************************************************)
(* The channel stub of a device rank and the fabric to the channel rank.   *)
(***************************************************************************)
\* the builds of the stub's process: NS_ASSERT is compiled in ("debug") or
\* compiled out ("optimized")
Builds == {"debug", "optimized"}

\* RemoteYansWifiChannelStub::RemoteYansWifiChannelStub() with InitializeMpi():
\* mpi tells whether MPI is enabled, rank is MpiInterface::GetSystemId()
StubConstructed(mpi, rank, build) ==
    /\ stubProcess = build
    /\ phyReceptions = <<>>
    /\ m_remoteChannelRank = 0
    /\ m_localDeviceRank = IF mpi THEN rank ELSE 1
    /\ m_sendCount = 0
    /\ m_addCount = 0
    /\ m_mpiInitialized = mpi
    /\ m_loggingFallback = TRUE
    /\ m_messageId = 0
    /\ m_phyList = <<>>
    /\ m_nextSequenceNumber = 1
    /\ net = <<>>
    /\ assignedId = [ph \in PhyIds |-> 0]

\* the stub in an optimized build
StubInit(mpi, rank) == StubConstructed(mpi, rank, "optimized")

\* WifiMpiInterface::IsDeviceRank: "return m_rank > 0"
IsDeviceRank == m_localDeviceRank > 0

\* GetDeviceIdFromPhy: the id of the PHY's node
GetDeviceIdFromPhy(phyIndex) == m_phyList[phyIndex]

\* WifiMpiInterface::SendDeviceRegister / SendTxRequest: the header from
\* CreateMessageHeader (sourceRank = m_rank, sequenceNumber =
\* m_nextSequenceNumber++), handed to SendMessage for rank 0
\* "NS_ASSERT(IsDeviceRank())" ends the process of a debug build; an optimized
\* build has no such check
SendOverMpi(type, dev, phy, node, channel, txPowerW) ==
    IF stubProcess = "debug" /\ ~IsDeviceRank
    THEN /\ stubProcess' = "aborted"
         /\ UNCHANGED <<net, m_nextSequenceNumber, m_messageId>>
    ELSE /\ net' = Append(net, WithPower(OnChannel(Packet("full", type, m_localDeviceRank,
                                                          m_nextSequenceNumber, dev, phy,
                                                          node),
                                                   channel),
                                         txPowerW))
         /\ m_nextSequenceNumber' = m_nextSequenceNumber + 1
         /\ UNCHANGED <<m_messageId, stubProcess>>

\* SendMpiMessageOrLog -> LogSimulatedMpiMessage: a log line, m_messageId++
SendMpiMessageOrLog ==
    /\ m_messageId' = m_messageId + 1
    /\ UNCHANGED <<net, m_nextSequenceNumber, stubProcess>>

\* the catch blocks of Add and Send: the send threw after the header was made
\* (MpiInterface::SendPacket is the call that can fail); nothing reaches the
\* fabric, and the fallback logs a simulated message
SendThrows ==
    /\ m_nextSequenceNumber' = m_nextSequenceNumber + 1
    /\ m_messageId' = IF m_loggingFallback THEN m_messageId + 1 ELSE m_messageId
    /\ UNCHANGED <<net, stubProcess>>

\* "if (m_mpiInitialized && WifiMpi::IsEnabled()) { try .. catch .. } else .."
SendOrFallBack(type, dev, phy, node, channel, txPowerW) ==
    IF m_mpiInitialized
    THEN \/ SendOverMpi(type, dev, phy, node, channel, txPowerW)
         \/ SendThrows
    ELSE IF m_loggingFallback
    THEN SendMpiMessageOrLog
    ELSE UNCHANGED <<net, m_nextSequenceNumber, m_messageId, stubProcess>>

\* void Add(Ptr<YansWifiPhy> phy), for a PHY on the node with id node, tuned
\* to channel (phy->GetChannelNumber()): returns at once, without waiting for
\* an answer to the registration
Add(node, channel) ==
    /\ stubProcess # "aborted"
    /\ m_addCount < MaxDevices
    /\ m_addCount' = m_addCount + 1
    /\ SendOrFallBack(WIFI_MPI_DEVICE_REGISTER, node, m_addCount + 1, node, channel, 0)
    /\ m_phyList' = Append(m_phyList, node)
    /\ lastOp' = Op("Add", m_addCount + 1, Len(net') - Len(net))
    /\ UNCHANGED <<procVars, msgVars, issued, announced, erased, assignedId, phyReceptions,
                   m_remoteChannelRank,
                   m_localDeviceRank, m_sendCount, m_mpiInitialized, m_loggingFallback>>

\* faulty variant of Send: the parent's YansWifiChannel::Send is called too,
\* and starts a reception at every other attached PHY
SendWithLocalPropagation(phyIndex, txPower) ==
    /\ stubProcess # "aborted"
    /\ phyIndex \in DOMAIN m_phyList
    /\ m_sendCount < MaxSends
    /\ m_sendCount' = m_sendCount + 1
    /\ SendOrFallBack(WIFI_MPI_TX_REQUEST, GetDeviceIdFromPhy(phyIndex), 0, 0, 0,
                      DbmToW(txPower))
    /\ phyReceptions' = phyReceptions \o [i \in 1..(Len(m_phyList) - 1) |-> now]
    /\ lastOp' = Op("Send", phyIndex, Len(net') - Len(net))
    /\ UNCHANGED <<procVars, msgVars, issued, announced, erased, assignedId,
                   m_remoteChannelRank, m_localDeviceRank, m_addCount, m_mpiInitialized,
                   m_loggingFallback, m_phyList>>

\* void Send(sender, ppdu, txPower) for the attached PHY number phyIndex (the
\* last argument of lastOp tells whether a packet went out); the parent's Send
\* is not called
Send(phyIndex, txPower) ==
    /\ stubProcess # "aborted"
    /\ phyIndex \in DOMAIN m_phyList
    /\ m_sendCount < MaxSends
    /\ m_sendCount' = m_sendCount + 1
    /\ SendOrFallBack(WIFI_MPI_TX_REQUEST, GetDeviceIdFromPhy(phyIndex), 0, 0, 0,
                      DbmToW(txPower))
    /\ lastOp' = Op("Send", phyIndex, Len(net') - Len(net))
    /\ UNCHANGED <<procVars, msgVars, issued, announced, erased, assignedId, phyReceptions,
                   m_remoteChannelRank, m_localDeviceRank, m_addCount, m_mpiInitialized,
                   m_loggingFallback, m_phyList>>

\* void SetLoggingFallback(bool enable)
SetLoggingFallback(enable) ==
    /\ stubProcess # "aborted"
    /\ m_loggingFallback' = enable
    /\ lastOp' = Op("SetLoggingFallback", 0, 0)
    /\ UNCHANGED <<procVars, msgVars, issued, announced, erased, netVars, phyReceptions,
                   m_remoteChannelRank,
                   m_localDeviceRank, m_sendCount, m_addCount, m_mpiInitialized,
                   m_messageId, m_phyList, m_nextSequenceNumber, stubProcess>>

\* faulty variant of DeliverToChannel: the packet sent last overtakes the
\* packets in flight
DeliverNewestToChannel ==
    /\ net # <<>>
    /\ HandleMpiMessageEffect(net[Len(net)])
    /\ net' = SubSeq(net, 1, Len(net) - 1)
    /\ assignedId' =
           IF lastMsg'.outcome = "registered"
           THEN [assignedId EXCEPT ![net[Len(net)].phyId] = lastMsg'.assigned]
           ELSE assignedId
    /\ UNCHANGED stubVars

\* the fabric hands the oldest packet in flight to the processor's
\* HandleMpiMessage; a registration's id is noted for the PHY it was for
DeliverToChannel ==
    /\ net # <<>>
    /\ HandleMpiMessageEffect(Head(net))
    /\ net' = Tail(net)
    /\ assignedId' =
           IF lastMsg'.outcome = "registered"
           THEN [assignedId EXCEPT ![Head(net).phyId] = lastMsg'.assigned]
           ELSE assignedId
    /\ UNCHANGED stubVars

(***************************************************************************)
(* Messages on the wire: Serialize and Deserialize, byte by byte.  Powers  *)
(* of wire messages are counted in tenths of a picowatt.                   *)
(***************************************************************************)
\* Buffer::Iterator::WriteHtonU32: four bytes, the most significant first
WriteHtonU32(v) ==
    <<(v \div 16777216) % 256, (v \div 65536) % 256, (v \div 256) % 256, v % 256>>

\* Buffer::Iterator::WriteHtonU64: eight bytes, the most significant first
WriteHtonU64(v) ==
    WriteHtonU32((v \div 65536) \div 65536)
        \o WriteHtonU32(((v \div 65536) % 65536) * 65536 + (v % 65536))

\* Buffer::Iterator::ReadNtohU32, of the four bytes after position at
ReadNtohU32(bytes, at) ==
    bytes[at + 1] * 16777216 + bytes[at + 2] * 65536 + bytes[at + 3] * 256 + bytes[at + 4]

\* Buffer::Iterator::ReadNtohU64, of the eight bytes after position at
ReadNtohU64(bytes, at) ==
    ReadNtohU32(bytes, at) * 65536 * 65536 + ReadNtohU32(bytes, at + 4)

\* "static_cast<uint64_t>(txPowerW * 1e12)": whole picowatts, the rest cut off
PowerToPicowatts(txPowerW) == txPowerW \div 10

\* "static_cast<double>(powerPW) / 1e12"
PicowattsToPower(powerPW) == powerPW * 10

\* struct WifiMpiMessageHeader
WifiMpiMessageHeader(type, size, source, target, time, seq, dev) ==
    [messageType |-> type, messageSize |-> size, sourceRank |-> source, targetRank |-> target,
     timestamp |-> time, sequenceNumber |-> seq, deviceId |-> dev, reserved |-> 0]

\* void WifiMpiMessageHeader::Serialize(buffer)
HeaderSerialize(header) ==
    WriteHtonU32(header.messageType) \o WriteHtonU32(header.messageSize)
        \o WriteHtonU32(header.sourceRank) \o WriteHtonU32(header.targetRank)
        \o WriteHtonU64(header.timestamp) \o WriteHtonU32(header.sequenceNumber)
        \o WriteHtonU32(header.deviceId) \o WriteHtonU32(header.reserved)

\* the bytes WifiMpiMessageHeader::Serialize and Deserialize move over
HeaderBytes == 36

\* void WifiMpiMessageHeader::Deserialize(buffer)
HeaderDeserialize(bytes) ==
    [messageType |-> ReadNtohU32(bytes, 0), messageSize |-> ReadNtohU32(bytes, 4),
     sourceRank |-> ReadNtohU32(bytes, 8), targetRank |-> ReadNtohU32(bytes, 12),
     timestamp |-> ReadNtohU64(bytes, 16), sequenceNumber |-> ReadNtohU32(bytes, 24),
     deviceId |-> ReadNtohU32(bytes, 28), reserved |-> ReadNtohU32(bytes, 32)]

\* void WifiMpiDeviceRegisterMessage::Serialize(buffer)
DeviceRegisterSerialize(msg) ==
    HeaderSerialize(msg.header) \o WriteHtonU32(msg.phyId) \o WriteHtonU32(msg.phyType)
        \o WriteHtonU32(msg.channelNumber) \o WriteHtonU32(msg.channelWidth)

\* void WifiMpiDeviceRegisterMessage::Deserialize(buffer)
DeviceRegisterDeserialize(bytes) ==
    [header |-> HeaderDeserialize(bytes), phyId |-> ReadNtohU32(bytes, HeaderBytes),
     phyType |-> ReadNtohU32(bytes, HeaderBytes + 4),
     channelNumber |-> ReadNtohU32(bytes, HeaderBytes + 8),
     channelWidth |-> ReadNtohU32(bytes, HeaderBytes + 12)]

\* void WifiMpiTxRequestMessage::Serialize(buffer)
TxRequestSerialize(msg) ==
    HeaderSerialize(msg.header) \o WriteHtonU32(msg.senderPhyId)
        \o WriteHtonU64(PowerToPicowatts(msg.txPowerW)) \o WriteHtonU32(msg.packetSize)
        \o WriteHtonU32(msg.ppduSerializedSize) \o WriteHtonU32(msg.txVectorSerializedSize)

\* void WifiMpiTxRequestMessage::Deserialize(buffer)
TxRequestDeserialize(bytes) ==
    [header |-> HeaderDeserialize(bytes), senderPhyId |-> ReadNtohU32(bytes, HeaderBytes),
     txPowerW |-> PicowattsToPower(ReadNtohU64(bytes, HeaderBytes + 4)),
     packetSize |-> ReadNtohU32(bytes, HeaderBytes + 12),
     ppduSerializedSize |-> ReadNtohU32(bytes, HeaderBytes + 16),
     txVectorSerializedSize |-> ReadNtohU32(bytes, HeaderBytes + 20)]

\* the headers put on the wire
WireHeaders ==
    {WifiMpiMessageHeader(type, HeaderSize, source, ChannelRank, time, seq, dev) :
        type \in {WIFI_MPI_DEVICE_REGISTER, WIFI_MPI_TX_REQUEST}, source \in Ranks,
        time \in {0, 70000}, seq \in SeqNums, dev \in {1, 300}}

\* powers of wire messages, in tenths of a picowatt: 0, 1.5 pW, 3 pW
WirePowers == {0, 15, 30}

\* the messages put on the wire, each with the struct it is an object of
WireMessages ==
    {[kind |-> "header", body |-> h] : h \in WireHeaders}
        \cup {[kind |-> "register",
               body |-> [header |-> h, phyId |-> 1, phyType |-> 66000, channelNumber |-> ch,
                         channelWidth |-> 20]] :
                h \in {x \in WireHeaders : x.messageType = WIFI_MPI_DEVICE_REGISTER},
                ch \in Channels}
        \cup {[kind |-> "txRequest",
               body |-> [header |-> h, senderPhyId |-> 1, txPowerW |-> pw, packetSize |-> 1500,
                         ppduSerializedSize |-> 0, txVectorSerializedSize |-> 0]] :
                h \in {x \in WireHeaders : x.messageType = WIFI_MPI_TX_REQUEST},
                pw \in WirePowers}

OnWire(msg, bytes, parsed) == [msg |-> msg, buffer |-> bytes, parsed |-> parsed]
NoWire == OnWire([kind |-> "none", body |-> <<>>], <<>>, <<>>)

\* Serialize of the message's struct, into an empty buffer
Serialize(msg) ==
    /\ wire' = OnWire(msg,
                      CASE msg.kind = "header" -> HeaderSerialize(msg.body)
                        [] msg.kind = "register" -> DeviceRegisterSerialize(msg.body)
                        [] msg.kind = "txRequest" -> TxRequestSerialize(msg.body),
                      <<>>)
    /\ lastOp' = Op("Serialize", 0, 0)
    /\ UNCHANGED <<coreVars, proxy, indexed, m_ifaceInitialized, m_pendingMessages, drained>>

\* Deserialize of the same struct, from the bytes Serialize wrote
Deserialize ==
    /\ wire.buffer # <<>>
    /\ wire.parsed = <<>>
    /\ wire' = [wire EXCEPT !.parsed =
                   CASE wire.msg.kind = "header" -> HeaderDeserialize(wire.buffer)
                     [] wire.msg.kind = "register" -> DeviceRegisterDeserialize(wire.buffer)
                     [] wire.msg.kind = "txRequest" -> TxRequestDeserialize(wire.buffer)]
    /\ lastOp' = Op("Deserialize", 0, 0)
    /\ UNCHANGED <<coreVars, proxy, indexed, m_ifaceInitialized, m_pendingMessages, drained>>

(***************************************************************************)
(* YansWifiChannelProxy: a channel that logs each call and hands it to the *)
(* YansWifiChannel it wraps.  The wrapped channel is its list of PHYs, its *)
(* two models and the calls it has received.                               *)
(***************************************************************************)
\* calls of the proxy in one run
MaxProxyCalls == 3

\* the propagation models given to a channel, 0 for none
Models == 0..1

\* YansWifiChannelProxy::YansWifiChannelProxy(): the counters at 0 and
\* "m_realChannel = CreateObject<YansWifiChannel>()"
ProxyConstructed ==
    [m_sendCallCount |-> 0, m_addCallCount |-> 0, m_getDeviceCallCount |-> 0,
     m_getNDevicesCallCount |-> 0, setModelCalls |-> 0,
     m_realChannel |-> [m_phyList |-> <<>>, m_loss |-> 0, m_delay |-> 0,
                        calls |-> [method \in {"Add", "Send", "GetNDevices", "GetDevice",
                                               "SetPropagationLossModel",
                                               "SetPropagationDelayModel"} |-> 0]]]

\* the calls the proxy has received
ProxyCalls ==
    proxy.m_sendCallCount + proxy.m_addCallCount + proxy.m_getDeviceCallCount
        + proxy.m_getNDevicesCallCount + proxy.setModelCalls

\* "m_realChannel->method(..)": the wrapped channel counts the call
Forwarded(channel, method) == [channel EXCEPT !.calls[method] = @ + 1]

\* YansWifiChannel::Add(phy) of the wrapped channel: the PHY joins its list
YansWifiChannelAdd(channel, node) ==
    Forwarded([channel EXCEPT !.m_phyList = Append(@, node)], "Add")

\* YansWifiChannel::GetNDevices() of the wrapped channel: the length of its list
YansWifiChannelGetNDevices(channel) == Len(channel.m_phyList)

\* what the proxy's operations leave alone
ProxyFrame ==
    UNCHANGED <<coreVars, wire, indexed, m_ifaceInitialized, m_pendingMessages, drained>>

\* std::size_t YansWifiChannelProxy::GetNDevices() const
ProxyGetNDevices ==
    /\ ProxyCalls < MaxProxyCalls
    /\ proxy' = [proxy EXCEPT !.m_getNDevicesCallCount = @ + 1,
                              !.m_realChannel = Forwarded(@, "GetNDevices")]
    /\ lastOp' = Op("ProxyGetNDevices", 0, YansWifiChannelGetNDevices(proxy.m_realChannel))
    /\ ProxyFrame

\* Ptr<NetDevice> YansWifiChannelProxy::GetDevice(i) const, for an index in
\* range: the result is the device's node
ProxyGetDevice(i) ==
    /\ ProxyCalls < MaxProxyCalls
    /\ i \in DOMAIN proxy.m_realChannel.m_phyList
    /\ proxy' = [proxy EXCEPT !.m_getDeviceCallCount = @ + 1,
                              !.m_realChannel = Forwarded(@, "GetDevice")]
    /\ lastOp' = Op("ProxyGetDevice", i, proxy.m_realChannel.m_phyList[i])
    /\ ProxyFrame

\* faulty variant of YansWifiChannelProxy::Add: the call is logged and counted,
\* but not handed to the wrapped channel
ProxyAddLoggedOnly(node) ==
    /\ ProxyCalls < MaxProxyCalls
    /\ proxy' = [proxy EXCEPT !.m_addCallCount = @ + 1,
                              !.m_realChannel = Forwarded(@, "GetNDevices")]
    /\ lastOp' = Op("ProxyAdd", node, 0)
    /\ ProxyFrame

\* void YansWifiChannelProxy::Add(phy), for a PHY on the node with id node:
\* forwarded, then the wrapped channel's GetNDevices is asked for the log
ProxyAdd(node) ==
    /\ ProxyCalls < MaxProxyCalls
    /\ proxy' = [proxy EXCEPT !.m_addCallCount = @ + 1,
                              !.m_realChannel =
                                  Forwarded(YansWifiChannelAdd(@, node), "GetNDevices")]
    /\ lastOp' = Op("ProxyAdd", node, 0)
    /\ ProxyFrame

\* void YansWifiChannelProxy::SetPropagationLossModel(loss)
ProxySetPropagationLossModel(loss) ==
    /\ ProxyCalls < MaxProxyCalls
    /\ proxy' = [proxy EXCEPT !.setModelCalls = @ + 1,
                              !.m_realChannel =
                                  Forwarded([@ EXCEPT !.m_loss = loss],
                                            "SetPropagationLossModel")]
    /\ lastOp' = Op("ProxySetPropagationLossModel", loss, 0)
    /\ ProxyFrame

\* void YansWifiChannelProxy::SetPropagationDelayModel(delay)
ProxySetPropagationDelayModel(delay) ==
    /\ ProxyCalls < MaxProxyCalls
    /\ proxy' = [proxy EXCEPT !.setModelCalls = @ + 1,
                              !.m_realChannel =
                                  Forwarded([@ EXCEPT !.m_delay = delay],
                                            "SetPropagationDelayModel")]
    /\ lastOp' = Op("ProxySetPropagationDelayModel", delay, 0)
    /\ ProxyFrame

\* void YansWifiChannelProxy::Send(sender, ppdu, txPower) const, for an attached
\* PHY: the wrapped channel's GetNDevices is asked for the log, then the call
\* is forwarded
ProxySend(sender, txPower) ==
    /\ ProxyCalls < MaxProxyCalls
    /\ sender \in DOMAIN proxy.m_realChannel.m_phyList
    /\ proxy' = [proxy EXCEPT !.m_sendCallCount = @ + 1,
                              !.m_realChannel =
                                  Forwarded(Forwarded(@, "GetNDevices"), "Send")]
    /\ lastOp' = Op("ProxySend", sender, txPower)
    /\ ProxyFrame

(***************************************************************************)
(* The WifiChannelMpiProcessor variant that keeps m_devicesByRank next to  *)
(* m_remoteDevices and handles messages only between StartProcessing and   *)
(* StopProcessing.  Its registry maps a device id to the device's record,  *)
(* its index maps a rank to a set of device ids.                           *)
(***************************************************************************)
\* messages handed to ProcessIncomingMessage in one run
MaxIndexedMessages == 3

\* a map with no key
EmptyMap == [k \in {} |-> 0]

\* the message types RouteMessage tells apart, and one it does not know
IndexedTypes ==
    {"WIFI_DEVICE_REGISTRATION", "WIFI_TRANSMISSION_REQUEST", "WIFI_CONFIGURATION_UPDATE",
     "WIFI_DEVICE_UNREGISTRATION", "unknown"}

\* a packet for ProcessIncomingMessage: the header's type and source rank, and
\* the fields the handlers read from the message behind it
IndexedMessages ==
    [type : IndexedTypes, sourceRank : Ranks, deviceId : PhyIds, position : Positions,
     txPowerDbm : {20}]

\* WifiChannelMpiProcessor::WifiChannelMpiProcessor() of this variant
IndexedConstructed ==
    [m_initialized |-> FALSE, m_processing |-> FALSE, m_remoteDevices |-> EmptyMap,
     m_devicesByRank |-> EmptyMap, m_totalMessages |-> 0, m_processedTransmissions |-> 0,
     m_sentNotifications |-> 0, m_registeredDevices |-> 0]

\* what the operations of this variant leave alone
IndexedFrame ==
    UNCHANGED <<coreVars, wire, proxy, m_ifaceInitialized, m_pendingMessages, drained>>

\* bool Initialize(): TRUE at once when initialized, else only with MPI enabled
\* and on rank 0
IndexedInitialize(mpiEnabled) ==
    /\ indexed' = [indexed EXCEPT !.m_initialized =
                      @ \/ (mpiEnabled /\ m_systemId = 0)]
    /\ lastOp' = Op("IndexedInitialize", 0,
                    IF indexed.m_initialized \/ (mpiEnabled /\ m_systemId = 0) THEN 1 ELSE 0)
    /\ IndexedFrame

\* void StartProcessing(): nothing unless initialized and not yet processing
IndexedStartProcessing ==
    /\ indexed' = [indexed EXCEPT !.m_processing = @ \/ indexed.m_initialized]
    /\ lastOp' = Op("IndexedStartProcessing", 0, 0)
    /\ IndexedFrame

\* void StopProcessing()
IndexedStopProcessing ==
    /\ indexed' = [indexed EXCEPT !.m_processing = FALSE]
    /\ lastOp' = Op("IndexedStopProcessing", 0, 0)
    /\ IndexedFrame

\* void DoDispose() of this variant: StopProcessing, then both maps cleared;
\* m_initialized stays
IndexedDoDispose ==
    /\ indexed' = [indexed EXCEPT !.m_processing = FALSE,
                                  !.m_remoteDevices = EmptyMap,
                                  !.m_devicesByRank = EmptyMap]
    /\ lastOp' = Op("IndexedDoDispose", 0, 0)
    /\ IndexedFrame

\* HandleDeviceRegistration(packet, sourceRank)
HandleDeviceRegistration(p, msg) ==
    [p EXCEPT !.m_remoteDevices =
                  MapPut(@, msg.deviceId, [rank |-> msg.sourceRank, position |-> msg.position]),
              !.m_devicesByRank =
                  MapPut(@, msg.sourceRank,
                         (IF msg.sourceRank \in DOMAIN @ THEN @[msg.sourceRank] ELSE {})
                             \cup {msg.deviceId}),
              !.m_registeredDevices = @ + 1]

\* GetDevicesInRange and the loop of HandleTransmissionRequest over it: the
\* other registered devices within 1000 m whose reception power reaches
\* m_receptionThresholdDbm (every device is active and on the one frequency)
NotifiedDevices(p, senderId, txPowerDbm) ==
    {d \in DOMAIN p.m_remoteDevices \ {senderId} :
        /\ CalculateDistance(p.m_remoteDevices[senderId].position,
                             p.m_remoteDevices[d].position) <= 1000
        /\ CalculateRxPower(p.m_remoteDevices[senderId].position,
                            p.m_remoteDevices[d].position, txPowerDbm)
               >= ReceptionThresholdDbm}

\* HandleTransmissionRequest(packet, sourceRank); SendReceptionNotification
\* counts each notification in m_sentNotifications
HandleTransmissionRequest(p, msg) ==
    [p EXCEPT !.m_processedTransmissions = @ + 1,
              !.m_sentNotifications =
                  IF msg.deviceId \in DOMAIN p.m_remoteDevices
                  THEN @ + Cardinality(NotifiedDevices(p, msg.deviceId, msg.txPowerDbm))
                  ELSE @]

\* HandleDeviceUnregistration(packet, sourceRank): the record goes, and the id
\* leaves the set of the record's rank; a set left empty is erased
HandleDeviceUnregistration(p, msg) ==
    IF msg.deviceId \notin DOMAIN p.m_remoteDevices
    THEN p
    ELSE LET deviceRank == p.m_remoteDevices[msg.deviceId].rank
         IN [p EXCEPT !.m_remoteDevices = MapErase(@, msg.deviceId),
                      !.m_devicesByRank =
                          IF deviceRank \notin DOMAIN @
                          THEN @
                          ELSE IF @[deviceRank] \ {msg.deviceId} = {}
                               THEN MapErase(@, deviceRank)
                               ELSE MapPut(@, deviceRank, @[deviceRank] \ {msg.deviceId})]

\* RouteMessage(header, packet, sourceRank)
RouteMessage(p, msg) ==
    CASE msg.type = "WIFI_DEVICE_REGISTRATION" -> HandleDeviceRegistration(p, msg)
      [] msg.type = "WIFI_TRANSMISSION_REQUEST" -> HandleTransmissionRequest(p, msg)
      [] msg.type = "WIFI_DEVICE_UNREGISTRATION" -> HandleDeviceUnregistration(p, msg)
      [] OTHER -> p

\* faulty variant of ProcessIncomingMessage: the message is counted before the
\* processing state is looked at
ProcessIncomingMessageCountedFirst(msg) ==
    /\ indexed.m_totalMessages < MaxIndexedMessages
    /\ indexed' = IF ~indexed.m_processing
                  THEN [indexed EXCEPT !.m_totalMessages = @ + 1]
                  ELSE RouteMessage([indexed EXCEPT !.m_totalMessages = @ + 1], msg)
    /\ lastOp' = Op("ProcessIncomingMessage", msg, 0)
    /\ IndexedFrame

\* void ProcessIncomingMessage(packet)
ProcessIncomingMessage(msg) ==
    /\ indexed.m_totalMessages < MaxIndexedMessages
    /\ indexed' = IF ~indexed.m_processing
                  THEN indexed
                  ELSE RouteMessage([indexed EXCEPT !.m_totalMessages = @ + 1], msg)
    /\ lastOp' = Op("ProcessIncomingMessage", msg, 0)
    /\ IndexedFrame

\* uint32_t GetNumDevicesOnRank(rank) const
GetNumDevicesOnRank(rank) ==
    IF rank \in DOMAIN indexed.m_devicesByRank
    THEN Cardinality(indexed.m_devicesByRank[rank])
    ELSE 0

(***************************************************************************)
(* WifiMpiInterface: validation and dispatch of received messages.         *)
(***************************************************************************)
Received(pkt, sourceRank, result) == [pkt |-> pkt, sourceRank |-> sourceRank, outcome |-> result]
NoRecv == Received(Packet("null", 0, 0, 0, 0, 0, 0), 0, "none")

\* WifiMpiInterface::WifiMpiInterface(): no handlers, m_messagesReceived(0)
InterfaceConstructed ==
    /\ wire = NoWire
    /\ proxy = ProxyConstructed
    /\ indexed = IndexedConstructed
    /\ m_ifaceInitialized = FALSE
    /\ m_pendingMessages = <<>>
    /\ drained = <<>>
    /\ m_messageHandlers = {}
    /\ m_messagesReceived = 0
    /\ lastRecv = NoRecv

\* bool WifiMpiMessageUtils::ValidateHeader(header): the type within
\* [WIFI_MPI_DEVICE_REGISTER, WIFI_MPI_ERROR_NOTIFY], the size within
\* [GetSerializedSize(), 1000000]; a timestamp in the future only warns
ValidateHeader(header) ==
    /\ ~(header.messageType < WIFI_MPI_DEVICE_REGISTER
            \/ header.messageType > WIFI_MPI_ERROR_NOTIFY)
    /\ ~(header.messageSize < HeaderSize \/ header.messageSize > MaxMessageSize)

\* bool WifiMpiInterface::ValidateIncomingMessage(header, sourceRank)
ValidateIncomingMessage(header, sourceRank) ==
    ValidateHeader(header) /\ header.sourceRank = sourceRank

\* void WifiMpiInterface::RegisterMessageHandler(messageType, handler)
RegisterMessageHandler(messageType) ==
    /\ m_messageHandlers' = m_messageHandlers \cup {messageType}
    /\ lastOp' = Op("RegisterMessageHandler", messageType, 0)
    /\ UNCHANGED <<procVars, lastMsg, m_messagesReceived, lastRecv, issued, announced, erased,
                   stubVars, netVars, extVars>>

\* what HandleReceivedMessage does with a message
HandleReceivedOutcome(buffer, sourceRank) ==
    IF ~ValidateIncomingMessage(buffer, sourceRank)
    THEN "invalid"
    ELSE IF buffer.messageType \in m_messageHandlers THEN "dispatched" ELSE "no handler"

\* void WifiMpiInterface::HandleReceivedMessage(buffer, sourceRank): an invalid
\* message is dropped before it is counted; a valid one is counted and handed
\* to the handler of its type, if there is one
HandleReceivedMessage(buffer, sourceRank) ==
    /\ m_messagesReceived < MaxReceived
    /\ lastRecv' = Received(buffer, sourceRank, HandleReceivedOutcome(buffer, sourceRank))
    /\ m_messagesReceived' =
           IF HandleReceivedOutcome(buffer, sourceRank) = "invalid"
           THEN m_messagesReceived
           ELSE m_messagesReceived + 1
    /\ lastOp' = Op("HandleReceivedMessage", 0, 0)
    /\ UNCHANGED <<procVars, lastMsg, m_messageHandlers, issued, announced, erased, stubVars,
                   netVars, extVars>>

\* struct PendingMessage
PendingMessage(buffer, sourceRank) == [buffer |-> buffer, sourceRank |-> sourceRank]

\* the messages that wait in the queue: a registration and a transmission
\* request of rank 1, and a registration that declares too short a length
PendingMessages ==
    {PendingMessage(pkt, pkt.mpiSource) :
        pkt \in {OnChannel(Packet("full", WIFI_MPI_DEVICE_REGISTER, 1, 1, 1, 1, 1), 1),
                 WithPower(Packet("full", WIFI_MPI_TX_REQUEST, 1, 1, 1, 0, 0), DbmToW(20)),
                 Declaring(OnChannel(Packet("full", WIFI_MPI_DEVICE_REGISTER, 1, 1, 1, 1, 1),
                                     1),
                           HeaderSize - 1)}}

\* what the operations of the interface on its queue leave alone
QueueFrame ==
    UNCHANGED <<procVars, lastMsg, issued, announced, erased, stubVars, netVars, wire, proxy,
                indexed>>

\* bool WifiMpiInterface::Initialize(rank, size), the size being the fabric's
InterfaceInitialize(mpiEnabled, rank) ==
    /\ m_ifaceInitialized' = (m_ifaceInitialized \/ (mpiEnabled /\ rank = m_systemId))
    /\ lastOp' = Op("InterfaceInitialize", rank,
                    IF m_ifaceInitialized \/ (mpiEnabled /\ rank = m_systemId) THEN 1 ELSE 0)
    /\ UNCHANGED <<m_messageHandlers, m_messagesReceived, lastRecv, m_pendingMessages,
                   drained>>
    /\ QueueFrame

\* the reception the placeholder in ProcessIncomingMessages stands for: a
\* message that arrived joins the queue of an initialized interface
EnqueueReceived(pending) ==
    /\ m_ifaceInitialized
    /\ Len(m_pendingMessages) + m_messagesReceived < MaxReceived
    /\ m_pendingMessages' = Append(m_pendingMessages, pending)
    /\ lastOp' = Op("EnqueueReceived", 0, 0)
    /\ UNCHANGED <<m_ifaceInitialized, m_messageHandlers, m_messagesReceived, lastRecv,
                   drained>>
    /\ QueueFrame

\* the loop of ProcessIncomingMessages: each message of the queue, front
\* first, popped and handed to HandleReceivedMessage
DrainOutcomes(queue) ==
    [i \in 1..Len(queue) |->
        Received(queue[i].buffer, queue[i].sourceRank,
                 HandleReceivedOutcome(queue[i].buffer, queue[i].sourceRank))]

\* the state of the interface after ProcessIncomingMessages
Drained ==
    /\ drained' = DrainOutcomes(m_pendingMessages)
    /\ m_pendingMessages' = <<>>
    /\ m_messagesReceived' =
           m_messagesReceived
               + Cardinality({i \in DOMAIN drained' : drained'[i].outcome # "invalid"})
    /\ lastRecv' = IF drained' = <<>> THEN lastRecv ELSE drained'[Len(drained')]

\* void WifiMpiInterface::ProcessIncomingMessages()
ProcessIncomingMessages ==
    /\ Drained
    /\ lastOp' = Op("ProcessIncomingMessages", 0, 0)
    /\ UNCHANGED <<m_ifaceInitialized, m_messageHandlers>>
    /\ QueueFrame

\* void WifiMpiInterface::Shutdown(): nothing when not initialized; else the
\* queue is processed, then the handlers and the queue are cleared
Shutdown ==
    /\ IF ~m_ifaceInitialized
       THEN UNCHANGED <<m_ifaceInitialized, m_messageHandlers, m_messagesReceived, lastRecv,
                        m_pendingMessages, drained>>
       ELSE /\ Drained
            /\ m_ifaceInitialized' = FALSE
            /\ m_messageHandlers' = {}
    /\ lastOp' = Op("Shutdown", 0, 0)
    /\ QueueFrame

(***************************************************************************)
(* The processor driven through its public operations.                     *)
(***************************************************************************)
\* WifiChannelMpiProcessor::WifiChannelMpiProcessor() in the process of rank
ProcessorConstructed(rank) ==
    /\ m_systemId = rank
    /\ m_initialized = FALSE
    /\ m_deviceCounter = 0
    /\ m_sequenceNumber = 0
    /\ m_remoteDevices = <<>>
    /\ now = 0
    /\ mpiSent = <<>>
    /\ lastMsg = NoMsg
    /\ InterfaceConstructed
    /\ lastOp = Op("Init", 0, 0)
    /\ issued = <<>>
    /\ erased = {}
    /\ announced = <<>>

\* WifiChannelMpiProcessor::WifiChannelMpiProcessor(), on the channel rank
ProcessorInit == ProcessorConstructed(ChannelRank)

\* faulty variant of Initialize: the check of the rank is missing
InitializeOnAnyRank ==
    /\ m_initialized' = TRUE
    /\ mpiSent' = <<>>
    /\ lastOp' = Op("Initialize", 0, 1)
    /\ UNCHANGED <<m_systemId, m_deviceCounter, m_sequenceNumber, m_remoteDevices, now,
                   issued, announced, erased, msgVars, stubVars, netVars>>

\* bool Initialize(): true when already initialized, false off rank 0,
\* otherwise SetupMpiReception() and true (lastOp.ret: 1 for true, 0 for false)
Initialize ==
    /\ m_initialized' = (m_initialized \/ m_systemId = ChannelRank)
    /\ mpiSent' = <<>>
    /\ lastOp' = Op("Initialize", 0, IF m_initialized \/ m_systemId = ChannelRank THEN 1 ELSE 0)
    /\ UNCHANGED <<m_systemId, m_deviceCounter, m_sequenceNumber, m_remoteDevices, now,
                   issued, announced, erased, msgVars, stubVars, netVars>>

\* the processor alone: the stub of the model is idle, without MPI
Init ==
    /\ ProcessorInit
    /\ StubInit(FALSE, 1)

Next ==
    \/ \E r \in Ranks, p \in Positions : RegisterDevice(r, p)
    \/ \E d \in DeviceIds : UnregisterDevice(d)
    \/ \E d \in DeviceIds, p \in Positions : UpdateDevicePosition(d, p)
    \/ \E d \in DeviceIds, p \in Positions, pw \in TxPowersDbm : ProcessTransmission(d, p, pw)

Spec == Init /\ [][Next]_vars

(***************************************************************************)
(* The processor driven through its public operations while the simulation *)
(* clock advances; position reports reach it late or in time.              *)
(***************************************************************************)
NextTime ==
    \/ \E r \in Ranks, p \in Positions : RegisterDevice(r, p)
    \/ \E d \in DeviceIds : UnregisterDevice(d)
    \/ \E d \in DeviceIds, p \in Positions, t \in 0..now : PositionReport(d, p, t)
    \/ Tick

SpecTime == Init /\ [][NextTime]_vars

(***************************************************************************)
(* A processor constructed in the process of any rank, initialized and     *)
(* used as a registry.                                                     *)
(***************************************************************************)
\* faulty variant of DoDispose: m_initialized is left as it was
DoDisposeStillInitialized ==
    /\ m_remoteDevices' = <<>>
    /\ mpiSent' = <<>>
    /\ lastOp' = Op("DoDispose", 0, 0)
    /\ UNCHANGED <<m_systemId, m_initialized, m_deviceCounter, m_sequenceNumber, now, issued,
                   announced, erased, msgVars, stubVars, netVars>>

\* void DoDispose(): the registry is cleared and m_initialized is reset; the
\* counters are left as they are
DoDispose ==
    /\ m_remoteDevices' = <<>>
    /\ m_initialized' = FALSE
    /\ mpiSent' = <<>>
    /\ lastOp' = Op("DoDispose", 0, 0)
    /\ UNCHANGED <<m_systemId, m_deviceCounter, m_sequenceNumber, now, issued, announced,
                   erased, msgVars, stubVars, netVars>>

InitBoot ==
    /\ \E rank \in Ranks : ProcessorConstructed(rank)
    /\ StubInit(FALSE, 1)

NextBoot ==
    \/ Initialize
    \/ DoDispose
    \/ \E r \in Ranks, p \in Positions : RegisterDevice(r, p)
    \/ \E d \in DeviceIds : UnregisterDevice(d)

SpecBoot == InitBoot /\ [][NextBoot]_vars

(***************************************************************************)
(* The processor driven by the messages the fabric hands it, in any order  *)
(* and with any sequence numbers.                                          *)
(***************************************************************************)
NextMsg ==
    \/ \E pkt \in Packets : HandleMpiMessage(pkt)
    \/ \E d \in DeviceIds : UnregisterDevice(d)

SpecMsg == Init /\ [][NextMsg]_vars

(***************************************************************************)
(* A stub on a device rank, the fabric and the processor together.         *)
(***************************************************************************)
\* the ranks that run a stub
DeviceRanks == Ranks \ {ChannelRank}

InitSys ==
    /\ ProcessorInit
    /\ \E mpi \in BOOLEAN, rank \in DeviceRanks : StubInit(mpi, rank)

NextSys ==
    \/ \E node \in NodeIds, ch \in Channels : Add(node, ch)
    \/ \E ph \in PhyIds, pw \in TxPowersDbm : Send(ph, pw)
    \/ \E enable \in BOOLEAN : SetLoggingFallback(enable)
    \/ DeliverToChannel

SpecSys == InitSys /\ [][NextSys]_vars

(***************************************************************************)
(* WifiMpiInterface on the channel rank, handed the messages the fabric    *)
(* received together with the rank it reports as their sender.  The buffers *)
(* hold a complete header: Deserialize reads one without a check.           *)
(***************************************************************************)
InitIface ==
    /\ ProcessorInit
    /\ StubInit(TRUE, 1)

NextIface ==
    \/ \E messageType \in HandledTypes : RegisterMessageHandler(messageType)
    \/ \E pkt \in CompletePackets : HandleReceivedMessage(pkt, pkt.mpiSource)

SpecIface == InitIface /\ [][NextIface]_vars

(***************************************************************************)
(* An interface that is initialized, given handlers and messages, and shut *)
(* down.                                                                   *)
(***************************************************************************)
NextQueue ==
    \/ \E mpiEnabled \in BOOLEAN, rank \in Ranks : InterfaceInitialize(mpiEnabled, rank)
    \/ \E messageType \in HandledTypes : RegisterMessageHandler(messageType)
    \/ \E pending \in PendingMessages : EnqueueReceived(pending)
    \/ ProcessIncomingMessages
    \/ Shutdown

SpecQueue == InitIface /\ [][NextQueue]_vars

(***************************************************************************)
(* Messages serialized into a buffer and parsed from it again.             *)
(***************************************************************************)
NextWire ==
    \/ \E msg \in WireMessages : Serialize(msg)
    \/ Deserialize

SpecWire == InitIface /\ [][NextWire]_vars

(***************************************************************************)
(* The processor variant with the per-rank index, in the process of any    *)
(* rank, driven through its operations and handed arbitrary messages.      *)
(***************************************************************************)
NextIndexed ==
    \/ \E mpiEnabled \in BOOLEAN : IndexedInitialize(mpiEnabled)
    \/ IndexedStartProcessing
    \/ IndexedStopProcessing
    \/ IndexedDoDispose
    \/ \E msg \in IndexedMessages : ProcessIncomingMessage(msg)

SpecIndexed == InitBoot /\ [][NextIndexed]_vars

(***************************************************************************)
(* A YansWifiChannelProxy driven through its operations.                   *)
(***************************************************************************)
NextProxy ==
    \/ ProxyGetNDevices
    \/ \E i \in PhyIds : ProxyGetDevice(i)
    \/ \E node \in NodeIds : ProxyAdd(node)
    \/ \E loss \in Models : ProxySetPropagationLossModel(loss)
    \/ \E delay \in Models : ProxySetPropagationDelayModel(delay)
    \/ \E sender \in PhyIds, txPower \in TxPowersDbm : ProxySend(sender, txPower)

SpecProxy == InitIface /\ [][NextProxy]_vars

(***************************************************************************)
(* A stub constructed in the process of any rank, the channel rank         *)
(* included, in a debug or an optimized build.                             *)
(***************************************************************************)
InitStub ==
    /\ ProcessorInit
    /\ \E mpi \in BOOLEAN, rank \in Ranks, build \in Builds :
           StubConstructed(mpi, rank, build)

NextStub ==
    \/ \E node \in NodeIds, ch \in Channels : Add(node, ch)
    \/ \E ph \in PhyIds, pw \in TxPowersDbm : Send(ph, pw)
    \/ \E enable \in BOOLEAN : SetLoggingFallback(enable)

SpecStub == InitStub /\ [][NextStub]_vars

(***************************************************************************)
(* Properties of the registry and of the fan-out (specification Spec).     *)
(***************************************************************************)
\* C1: the device ids RegisterDevice returns are strictly increasing in the
\* order of the calls, so an id is never handed out twice, not even after the
\* device that held it was unregistered.
C1_IdsStrictlyIncreasing ==
    \A i, j \in DOMAIN issued : i < j => issued[i] < issued[j]

\* a registration that follows a deregistration
C1_Witness ==
    /\ lastOp.op = "RegisterDevice"
    /\ erased # {}
    /\ Len(issued) >= 2

\* C2 (as stated): after ProcessTransmission for a registered transmitter d,
\* exactly one RX_NOTIFICATION was emitted for each registered device r other
\* than d (every record shares the one frequency and no power threshold is
\* applied, so every other device qualifies).
C2_OneNotificationPerReceiver ==
    (lastOp.op = "ProcessTransmission" /\ IsDeviceRegistered(lastOp.arg)) =>
        \A r \in DOMAIN m_remoteDevices \ {lastOp.arg} :
            Cardinality({i \in DOMAIN mpiSent : mpiSent[i].receiverDeviceId = r}) = 1

\* C3: no RX_NOTIFICATION of a transmission is addressed to the transmitter
\* itself, and a transmission from the only registered device emits none.
C3_NoSelfNotification ==
    lastOp.op = "ProcessTransmission" =>
        /\ \A i \in DOMAIN mpiSent :
               /\ mpiSent[i].transmitterDeviceId = lastOp.arg
               /\ mpiSent[i].receiverDeviceId # lastOp.arg
        /\ DOMAIN m_remoteDevices = {lastOp.arg} => mpiSent = <<>>

\* a registered transmitter on a device rank whose transmission was notified
\* to another device
C3_Witness ==
    /\ lastOp.op = "ProcessTransmission"
    /\ IsDeviceRegistered(lastOp.arg)
    /\ m_remoteDevices[lastOp.arg].rank # m_systemId
    /\ mpiSent # <<>>

C14_NoNotificationBelowThreshold ==
    \A i \in DOMAIN mpiSent : mpiSent[i].rxPowerDbm >= ReceptionThresholdDbm

\* C15 (as stated): in every RX_NOTIFICATION emitted, the reception timestamp
\* (the timestamp of the notification, the time it is sent for) is the
\* transmission timestamp plus the propagation delay, in nanoseconds.
C15_ReceptionIsTransmissionPlusDelay ==
    \A i \in DOMAIN mpiSent :
        mpiSent[i].timestamp =
            mpiSent[i].transmissionTimestamp + mpiSent[i].propagationDelay

\* C20: deregistering a device id that is not in the registry leaves every
\* record and the id counter as they were, and the call returns normally.
C20_UnknownDeregistrationChangesNothing ==
    [][(lastOp'.op = "UnregisterDevice" /\ ~IsDeviceRegistered(lastOp'.arg))
       => /\ m_remoteDevices' = m_remoteDevices
          /\ m_deviceCounter' = m_deviceCounter]_vars

\* C20's case: UnregisterDevice has returned for an id never assigned, on a
\* registry that holds records
C20_Witness ==
    /\ lastOp.op = "UnregisterDevice"
    /\ lastOp.arg \notin Range(issued)
    /\ m_remoteDevices # <<>>

\* C8: the registry holds a record for exactly the ids that were assigned and
\* not unregistered since, each stored under its own id, and nothing else.
C8_RegistryIsAssignedMinusErased ==
    /\ DOMAIN m_remoteDevices = Range(issued) \ erased
    /\ \A id \in DOMAIN m_remoteDevices : m_remoteDevices[id].deviceId = id

\* one device unregistered while another is still registered
C8_Witness ==
    /\ erased # {}
    /\ DOMAIN m_remoteDevices # {}

(***************************************************************************)
(* Properties of message handling (specification SpecMsg).  They compare   *)
(* a message with the one HandleMpiMessage handled just before it.         *)
(***************************************************************************)
\* the handler acted on the message: a device was registered or a
\* transmission was fanned out
Accepted(m) == m.outcome \in {"registered", "transmitted"}

\* two calls of HandleMpiMessage, one right after the other
ConsecutiveMessages ==
    /\ lastOp.op = "HandleMpiMessage"
    /\ lastOp'.op = "HandleMpiMessage"

SameSourceAndType(p, q) ==
    /\ p.sourceRank = q.sourceRank
    /\ p.messageType = q.messageType

\* C4 (as stated): an accepted message from source rank s of type t carries a
\* sequence number strictly greater than that of the previously accepted
\* message from s of type t.
C4_AcceptedSequenceIncreases ==
    [][(lastOp'.op = "HandleMpiMessage" /\ Accepted(lastMsg) /\ Accepted(lastMsg')
            /\ SameSourceAndType(lastMsg.pkt, lastMsg'.pkt))
        => lastMsg'.pkt.sequenceNumber > lastMsg.pkt.sequenceNumber]_vars

\* C5 (as stated): a TX_REQUEST with sequence number N followed by one from the
\* same rank with sequence number N - 1: the second is not processed, it emits
\* no RX_NOTIFICATION and leaves the registry as it was.
C5_RegressionNotProcessed ==
    [][(ConsecutiveMessages /\ Accepted(lastMsg)
            /\ lastMsg.pkt.messageType = WIFI_MPI_TX_REQUEST
            /\ lastMsg'.pkt.size = "full"
            /\ SameSourceAndType(lastMsg.pkt, lastMsg'.pkt)
            /\ lastMsg'.pkt.sequenceNumber = lastMsg.pkt.sequenceNumber - 1)
        => /\ mpiSent' = <<>>
           /\ m_remoteDevices' = m_remoteDevices]_vars

\* C6 (as stated): the same TX_REQUEST delivered a second time changes nothing
\* and emits no RX_NOTIFICATION.
C6_DuplicateEmitsNothing ==
    [][(ConsecutiveMessages /\ Accepted(lastMsg)
            /\ lastMsg.pkt.messageType = WIFI_MPI_TX_REQUEST
            /\ lastMsg'.pkt = lastMsg.pkt)
        => /\ mpiSent' = <<>>
           /\ m_remoteDevices' = m_remoteDevices]_vars

\* C7 (as stated): a second registration with the same (source rank, node id,
\* phy index) returns the id of the first and leaves one record for it.
C7_ReRegistrationIsIdempotent ==
    [][(ConsecutiveMessages /\ lastMsg.outcome = "registered"
            /\ lastMsg'.outcome = "registered"
            /\ lastMsg'.pkt.sourceRank = lastMsg.pkt.sourceRank
            /\ lastMsg'.pkt.nodeId = lastMsg.pkt.nodeId
            /\ lastMsg'.pkt.phyId = lastMsg.pkt.phyId)
        => /\ lastMsg'.assigned = lastMsg.assigned
           /\ DOMAIN m_remoteDevices' = DOMAIN m_remoteDevices]_vars

\* C11: a TX_REQUEST naming a device id that is not in the registry emits no
\* RX_NOTIFICATION and leaves the registry (and the id counter) as it was.
C11_UnknownTransmitterDropped ==
    [][(lastOp'.op = "HandleMpiMessage"
            /\ lastMsg'.pkt.size = "full"
            /\ lastMsg'.pkt.messageType = WIFI_MPI_TX_REQUEST
            /\ ~IsDeviceRegistered(lastMsg'.pkt.deviceId))
        => /\ mpiSent' = <<>>
           /\ m_remoteDevices' = m_remoteDevices
           /\ m_deviceCounter' = m_deviceCounter]_vars

\* a TX_REQUEST from an unknown id was dropped while a device on a device
\* rank was registered, which a fan-out would have notified
C11_Witness ==
    /\ lastOp.op = "HandleMpiMessage"
    /\ lastMsg.outcome = "unregistered device"
    /\ \E id \in DOMAIN m_remoteDevices : m_remoteDevices[id].rank # m_systemId

\* C13 (as stated): no RX_NOTIFICATION of a transmission goes to a receiver
\* whose set of supported frequencies is not empty and lacks the frequency of
\* the transmission. A TX_REQUEST is fanned out at 2.4 GHz; a receiver whose
\* registration announced a channel other than 1..14 (here channel 36, a
\* 5 GHz channel) supports only another frequency; 0 stands for no channel.
C13_NoNotificationOffFrequency ==
    (lastOp.op = "HandleMpiMessage" /\ lastMsg.outcome = "transmitted") =>
        \A i \in DOMAIN mpiSent : announced[mpiSent[i].receiverDeviceId] \in 0..14

\* C18 (as stated): a TX_REQUEST handled right after a position update for a
\* registered receiver (both of the same simulation time) yields, for that
\* receiver, the distance and the propagation delay from the transmitter's
\* position to the updated position.
C18_TransmissionUsesUpdatedPosition ==
    [][(/\ lastOp.op = "HandleMpiMessage"
        /\ lastMsg.pkt.size = "full"
        /\ lastMsg.pkt.messageType = 105
        /\ lastOp'.op = "HandleMpiMessage"
        /\ lastMsg'.outcome = "transmitted")
       => \A i \in DOMAIN mpiSent' :
              mpiSent'[i].receiverDeviceId = lastMsg.pkt.deviceId =>
                  /\ mpiSent'[i].distanceM =
                         CalculateDistance(GetDevicePosition(lastMsg'.pkt.deviceId),
                                           lastMsg.pkt.position)
                  /\ mpiSent'[i].propagationDelay =
                         CalculatePropagationDelayNs(
                             GetDevicePosition(lastMsg'.pkt.deviceId),
                             lastMsg.pkt.position)]_vars

\* C19 (as stated): a DEVICE_REGISTER followed by a DEVICE_REMOVE for the id
\* it was assigned leaves the registry as it was before the pair (the fresh
\* record is gone, every other record is as it was); only the id counter has
\* advanced.
C19_RegisterThenRemoveRestoresRegistry ==
    [][(/\ lastOp.op = "HandleMpiMessage"
        /\ lastMsg.outcome = "registered"
        /\ lastOp'.op = "HandleMpiMessage"
        /\ lastMsg'.pkt.size = "full"
        /\ lastMsg'.pkt.messageType = WIFI_MPI_DEVICE_REMOVE
        /\ lastMsg'.pkt.deviceId = lastMsg.assigned)
       => /\ m_remoteDevices' = MapErase(m_remoteDevices, lastMsg.assigned)
          /\ m_deviceCounter' = m_deviceCounter]_vars

(***************************************************************************)
(* Properties of the registry under an advancing clock (specification      *)
(* SpecTime).                                                              *)
(***************************************************************************)
\* C16 (as stated): a position update whose event timestamp is strictly older
\* than the device's stored lastActivity changes neither the stored position
\* nor lastActivity.
C16_StaleUpdateDiscarded ==
    [][(/\ lastOp'.op = "UpdateDevicePosition"
        /\ IsDeviceRegistered(lastOp'.arg)
        /\ lastOp'.ret < m_remoteDevices[lastOp'.arg].lastActivity)
       => m_remoteDevices' = m_remoteDevices]_vars

\* C17: the lastActivity of a registered device never decreases, whatever is
\* applied for that device.
C17_LastActivityNeverDecreases ==
    [][\A id \in DOMAIN m_remoteDevices \cap DOMAIN m_remoteDevices' :
           m_remoteDevices'[id].lastActivity >= m_remoteDevices[id].lastActivity]_vars

\* C17's case: an update applied to a device whose record is from an earlier time
C17_Witness ==
    /\ lastOp.op = "UpdateDevicePosition"
    /\ IsDeviceRegistered(lastOp.arg)
    /\ m_remoteDevices[lastOp.arg].lastActivity > 0
    /\ \E id \in DOMAIN m_remoteDevices :
           m_remoteDevices[id].lastActivity < m_remoteDevices[lastOp.arg].lastActivity

(***************************************************************************)
(* Properties of the stub with the processor (specification SpecSys).      *)
(***************************************************************************)
\* C9 (as stated): once the processor has assigned an id to a PHY's
\* registration, a TX_REQUEST the stub sends for that PHY carries that id.
C9_TxRequestCarriesAssignedId ==
    (lastOp.op = "Send" /\ lastOp.ret = 1 /\ assignedId[lastOp.arg] # 0) =>
        net[Len(net)].deviceId = assignedId[lastOp.arg]

\* C10 (as stated, its safety half): an attach does not complete without an
\* assigned id: every PHY whose Add has returned has an id from the processor.
C10_AttachCompletesOnlyWithId ==
    \A ph \in DOMAIN m_phyList : assignedId[ph] # 0

C22_InitializeFailsOffChannelRank ==
    m_systemId # ChannelRank =>
        /\ ~m_initialized
        /\ lastOp.op = "Initialize" => lastOp.ret = 0

\* C22's case: Initialize has returned on a rank other than the channel rank
C22_Witness ==
    /\ m_systemId # ChannelRank
    /\ lastOp.op = "Initialize"

(***************************************************************************)
(* Properties of a stub on any rank (specification SpecStub).              *)
(***************************************************************************)
\* C23 (as stated): a stub whose local rank is the channel rank never emits
\* a DEVICE_REGISTER or a TX_REQUEST.
C23_StubOnChannelRankEmitsNothing ==
    (m_mpiInitialized /\ m_localDeviceRank = m_remoteChannelRank) => net = <<>>

(***************************************************************************)
(* Properties of message validation (specification SpecMsg).               *)
(***************************************************************************)
\* C24 (as stated): no record of the registry has the channel rank as its
\* owning rank.
C24_NoDeviceOwnedByChannelRank ==
    \A id \in DOMAIN m_remoteDevices : m_remoteDevices[id].rank # ChannelRank

C26_BadLengthRejectedBeforeHandler ==
    (/\ lastMsg.pkt.size = "full"
     /\ lastMsg.pkt.messageSize \notin HeaderSize..MaxMessageSize)
        => lastMsg.outcome \notin {"registered", "transmitted", "unregistered device"}

\* C27 (as stated): a message whose header names another rank than the one
\* the fabric reports as its sender reaches no handler and changes nothing.
C27_ForgedSourceNotApplied ==
    (/\ lastMsg.pkt.size = "full"
     /\ lastMsg.pkt.sourceRank # lastMsg.pkt.mpiSource)
        => lastMsg.outcome \notin {"registered", "transmitted", "unregistered device"}

\* C28: a packet the processor drops (null, too short, of an unknown type,
\* from an unknown device) changes neither the registry nor the counter and
\* sends nothing, and the valid message that follows a dropped one is applied.
C28_ProcessorContinuesAfterDrop ==
    [][lastOp'.op = "HandleMpiMessage"
        => /\ lastMsg'.outcome \in DroppedOutcomes
                => /\ m_remoteDevices' = m_remoteDevices
                   /\ m_deviceCounter' = m_deviceCounter
                   /\ mpiSent' = <<>>
           /\ (/\ lastMsg.outcome \in DroppedOutcomes
               /\ lastMsg'.pkt.size = "full"
               /\ \/ lastMsg'.pkt.messageType = WIFI_MPI_DEVICE_REGISTER
                  \/ /\ lastMsg'.pkt.messageType = WIFI_MPI_TX_REQUEST
                     /\ IsDeviceRegistered(lastMsg'.pkt.deviceId))
                => lastMsg'.outcome \in {"registered", "transmitted"}]_vars

\* a packet of an unknown type was dropped while a device was registered
C28_Witness ==
    /\ lastOp.op = "HandleMpiMessage"
    /\ lastMsg.outcome = "unknown type"
    /\ m_remoteDevices # <<>>

(***************************************************************************)
(* Properties of failing sends (specification SpecSys).                    *)
(***************************************************************************)
\* C29 (as stated): after a send over the fabric has failed, the process
\* that was sending sends nothing more.
C29_FailedSendIsFatal ==
    [][(/\ lastOp.op \in {"Add", "Send"}
        /\ m_mpiInitialized
        /\ lastOp.ret = 0)
        => Len(net') <= Len(net)]_vars

\* the RX_NOTIFICATIONs sent to the stub's rank whose reception time, the
\* transmission timestamp plus the propagation delay, has come
DueNotifications ==
    {i \in DOMAIN mpiSent :
        /\ mpiSent[i].targetRank = m_localDeviceRank
        /\ mpiSent[i].transmissionTimestamp + mpiSent[i].propagationDelay <= now}

\* C30 (as stated): once the stub has run after the reception time of a
\* notification sent to its rank has come, the reception has been started at
\* the local radio at exactly that time, or the stub's process has ended.
C30_ReceptionDeliveredAtItsTimestamp ==
    (lastOp.op \in {"Add", "Send", "SetLoggingFallback"} /\ stubProcess # "aborted")
        => \A i \in DueNotifications :
              \E j \in DOMAIN phyReceptions :
                  phyReceptions[j] =
                      mpiSent[i].transmissionTimestamp + mpiSent[i].propagationDelay

C33_RoundTripIsIdentity == wire.parsed # <<>> => wire.parsed = wire.msg.body

\* C34 (as stated): the bytes Serialize writes for a header are as many as
\* GetSerializedSize reports, and both are 44.
C34_HeaderIs44Bytes ==
    (wire.msg.kind = "header" /\ wire.buffer # <<>>)
        => (Len(wire.buffer) = HeaderSize /\ HeaderSize = 44)

(***************************************************************************)
(* Properties of the notifications' numbering (specification Spec).        *)
(***************************************************************************)
\* C35: the RX_NOTIFICATIONs of a transmission carry sequence numbers above
\* the counter as it was, that is above every number used before, strictly
\* ascending among themselves, and the counter never falls below a number
\* that was used.
C35_NotificationNumbersStrictlyIncrease ==
    [][/\ m_sequenceNumber' >= m_sequenceNumber
       /\ (mpiSent' # <<>> /\ mpiSent' # mpiSent)
            => /\ \A i \in DOMAIN mpiSent' :
                     /\ mpiSent'[i].sequenceNumber > m_sequenceNumber
                     /\ mpiSent'[i].sequenceNumber <= m_sequenceNumber'
               /\ \A i, j \in DOMAIN mpiSent' :
                     i < j => mpiSent'[i].sequenceNumber < mpiSent'[j].sequenceNumber]_vars

\* a transmission notified to one receiver after a number was used before
C35_Witness ==
    /\ lastOp.op = "ProcessTransmission"
    /\ Len(mpiSent) = 1
    /\ mpiSent[1].sequenceNumber >= 2

(***************************************************************************)
(* Properties of the channel proxy (specification SpecProxy).              *)
(***************************************************************************)
\* the method of the wrapped channel an operation of the proxy stands for
ForwardedMethod(op) ==
    CASE op = "ProxyGetNDevices" -> "GetNDevices"
      [] op = "ProxyGetDevice" -> "GetDevice"
      [] op = "ProxyAdd" -> "Add"
      [] op = "ProxySend" -> "Send"
      [] op = "ProxySetPropagationLossModel" -> "SetPropagationLossModel"
      [] op = "ProxySetPropagationDelayModel" -> "SetPropagationDelayModel"

\* C36: every call of the proxy reaches the same method of the wrapped
\* channel exactly once, the wrapped channel holds as many PHYs as were added
\* through the proxy, and GetNDevices returns that number.
C36_ProxyForwardsEveryCallOnce ==
    [][proxy' # proxy
        => /\ proxy'.m_realChannel.calls[ForwardedMethod(lastOp'.op)] =
                  proxy.m_realChannel.calls[ForwardedMethod(lastOp'.op)] + 1
           /\ \A method \in {"Add", "Send", "GetDevice", "SetPropagationLossModel",
                             "SetPropagationDelayModel"} \ {ForwardedMethod(lastOp'.op)} :
                  proxy'.m_realChannel.calls[method] = proxy.m_realChannel.calls[method]
           /\ Len(proxy'.m_realChannel.m_phyList) = proxy'.m_addCallCount
           /\ lastOp'.op = "ProxyGetNDevices" => lastOp'.ret = proxy.m_addCallCount]_vars

\* GetNDevices has returned 2 after two PHYs were added through the proxy
C36_Witness ==
    /\ lastOp.op = "ProxyGetNDevices"
    /\ lastOp.ret = 2
    /\ proxy.m_addCallCount = 2

(***************************************************************************)
(* Properties of the processor variant with the per-rank index             *)
(* (specification SpecIndexed).                                            *)
(***************************************************************************)
\* C37: the index agrees with the registry: a device id is listed under a
\* rank exactly when the registry holds a record for that id with that rank,
\* and no rank is listed with an empty set.
C37_IndexAgreesWithRegistry ==
    /\ \A r \in Ranks, d \in PhyIds :
           (r \in DOMAIN indexed.m_devicesByRank /\ d \in indexed.m_devicesByRank[r])
               <=> (d \in DOMAIN indexed.m_remoteDevices
                       /\ indexed.m_remoteDevices[d].rank = r)
    /\ \A r \in DOMAIN indexed.m_devicesByRank : indexed.m_devicesByRank[r] # {}

\* C38: a message handed to ProcessIncomingMessage while the processor is not
\* processing (before StartProcessing, after StopProcessing, or with
\* Initialize never successful) changes nothing: the registry, the index, the
\* message and transmission counters and the count of sent notifications stay.
C38_IgnoredWhileNotProcessing ==
    [][(lastOp'.op = "ProcessIncomingMessage" /\ ~indexed.m_processing)
          => /\ indexed'.m_remoteDevices = indexed.m_remoteDevices
             /\ indexed'.m_devicesByRank = indexed.m_devicesByRank
             /\ indexed'.m_totalMessages = indexed.m_totalMessages
             /\ indexed'.m_processedTransmissions = indexed.m_processedTransmissions
             /\ indexed'.m_sentNotifications = indexed.m_sentNotifications
             /\ indexed'.m_registeredDevices = indexed.m_registeredDevices
             /\ indexed'.m_initialized = indexed.m_initialized
             /\ ~indexed'.m_processing]_vars

\* after StopProcessing, the unregistration of a registered device was handed
\* in and the device is still registered
C38_Witness ==
    /\ lastOp.op = "ProcessIncomingMessage"
    /\ lastOp.arg.type = "WIFI_DEVICE_UNREGISTRATION"
    /\ indexed.m_initialized
    /\ ~indexed.m_processing
    /\ lastOp.arg.deviceId \in DOMAIN indexed.m_remoteDevices
    /\ indexed.m_totalMessages = 1

C40_EveryAddEmitsOneRegistration ==
    [][m_addCount' = m_addCount + 1
          => /\ (Len(net') - Len(net)) + (m_messageId' - m_messageId) = 1
             /\ Len(net') > Len(net)
                    => net'[Len(net')].messageType = WIFI_MPI_DEVICE_REGISTER]_vars

====
